---- MODULE Spec2Model ----
(***************************************************************************)
(* Model of mkdocs/build.py: the URL resolver (path_to_url,                *)
(* path_to_previous_and_next_urls), the navigation builder (generate_nav), *)
(* the active-path marker (set_nav_active), the table-of-contents          *)
(* extractor (generate_toc) and the page loop of build_pages.              *)
(*                                                                         *)
(* Python strings are sequences of one-character strings, so that          *)
(* splitext, replace, rstrip, partition, strip, splitlines, startswith,    *)
(* endswith and the TOC regular expression are computed character by       *)
(* character.  The os module is the POSIX one: os.path.pathsep is ":" and  *)
(* the directory separator is "/".                                         *)
(***************************************************************************)
EXTENDS Integers, Sequences, FiniteSets, TLC

VARIABLES
    config,        \* [pages, local_files, base_url]: the build's Config, never mutated
    pc,            \* position of the running function
    path,          \* the path argument of the call in progress / last made
    result,        \* return value of the last path_to_url call (SpecUrl)
    nav,           \* the shared nav tree: generate_nav's ret, then build_pages' nav
    active_nav,    \* build_pages' active_nav: position of the returned item in nav, or None
    url,           \* build_pages' url
    previous_url,  \* build_pages' previous_url
    next_url,      \* build_pages' next_url
    k,             \* number of entries of config['pages'] the running loop has consumed
    toc_html,      \* generate_toc's argument
    lines,         \* generate_toc's lines
    li,            \* number of lines the loop of generate_toc has consumed
    parents,       \* generate_toc's parents: a stack of references to NavItems
    items,         \* the NavItem objects generate_toc has constructed, by reference
    ret            \* generate_toc's ret: references to the top-level NavItems

vars == <<config, pc, path, result, nav, active_nav, url, previous_url, next_url,
          k, toc_html, lines, li, parents, items, ret>>

urlVars == <<result>>
navVars == <<nav, active_nav, url, previous_url, next_url, k>>
tocVars == <<toc_html, lines, li, parents, items, ret>>

(***************************************************************************)
(* Python values                                                           *)
(***************************************************************************)
\* Python's None; no string is equal to it (strings hold one-character elements)
None == <<"None">>

\* str.endswith / str.startswith
EndsWith(s, suffix) ==
    /\ Len(suffix) <= Len(s)
    /\ SubSeq(s, Len(s) - Len(suffix) + 1, Len(s)) = suffix

StartsWith(s, prefix) ==
    /\ Len(prefix) <= Len(s)
    /\ SubSeq(s, 1, Len(prefix)) = prefix

\* str.replace(old, new) for one-character old and new
Replace(s, old, new) == [n \in 1..Len(s) |-> IF s[n] = old THEN new ELSE s[n]]

\* str.rfind(c) for a one-character c, 1-based, 0 when c does not occur
RFind(s, c) ==
    IF \E n \in 1..Len(s) : s[n] = c
    THEN CHOOSE n \in 1..Len(s) : s[n] = c /\ \A m \in (n+1)..Len(s) : s[m] # c
    ELSE 0

\* str.find(c) from position `from` (1-based), 0 when c does not occur there
FindFrom(s, c, from) ==
    IF \E n \in from..Len(s) : s[n] = c
    THEN CHOOSE n \in from..Len(s) : s[n] = c /\ \A m \in from..(n-1) : s[m] # c
    ELSE 0

\* str.rstrip(chars): drops the longest suffix made of characters of `chars`
RStripChars(s, chars) ==
    LET keep == {n \in 0..Len(s) : \A m \in (n+1)..Len(s) : s[m] \in chars}
        n == CHOOSE n \in keep : \A m \in keep : n <= m
    IN SubSeq(s, 1, n)

\* str.lstrip(chars)
LStripChars(s, chars) ==
    LET drop == {n \in 0..Len(s) : \A m \in 1..n : s[m] \in chars}
        n == CHOOSE n \in drop : \A m \in drop : n >= m
    IN SubSeq(s, n + 1, Len(s))

Whitespace == {" ", "\t", "\n"}

\* str.strip()
strip(s) == LStripChars(RStripChars(s, Whitespace), Whitespace)

\* str.partition(sep) for a one-character sep: <<head, sep, tail>>
partition(s, sep) ==
    LET n == FindFrom(s, sep, 1)
    IN IF n = 0 THEN <<s, <<>>, <<>>>>
       ELSE <<SubSeq(s, 1, n - 1), <<sep>>, SubSeq(s, n + 1, Len(s))>>

\* os.path.pathsep
pathsep == ":"

\* os.path.splitext(p)[0]: the extension starts at the last dot of the last
\* component, leading dots of that component not counted
splitext0(p) ==
    LET sepIndex == RFind(p, "/")
        dotIndex == RFind(p, ".")
    IN IF dotIndex > sepIndex
          /\ \E n \in (sepIndex + 1)..(dotIndex - 1) : p[n] # "."
       THEN SubSeq(p, 1, dotIndex - 1)
       ELSE p

\* os.path.basename
basename(p) == SubSeq(p, RFind(p, "/") + 1, Len(p))

INDEX == <<"i", "n", "d", "e", "x">>

\* mkdocs.utils.get_html_path: 'index.md' -> 'index.html',
\* 'about.md' -> 'about/index.html'
get_html_path(p) ==
    LET stem == splitext0(p)
    IN IF basename(stem) = INDEX
       THEN stem \o <<".", "h", "t", "m", "l">>
       ELSE stem \o <<"/">> \o INDEX \o <<".", "h", "t", "m", "l">>

(***************************************************************************)
(* URL Resolver                                                            *)
(***************************************************************************)
path_to_url(p, cfg) ==
    IF cfg.local_files
    THEN cfg.base_url \o <<"/">> \o Replace(get_html_path(p), pathsep, "/")
    ELSE LET u == cfg.base_url \o <<"/">> \o Replace(splitext0(p), pathsep, "/")
         IN IF u = INDEX \/ EndsWith(u, <<"/">> \o INDEX)
            THEN RStripChars(u, {"i", "n", "d", "e", "x"})
            ELSE u \o <<"/">>

\* list.index(x): position of the first element equal to x (1-based);
\* 0 stands for the ValueError raised when there is none
index(list, x) ==
    IF \E n \in 1..Len(list) : list[n] = x
    THEN CHOOSE n \in 1..Len(list) : list[n] = x /\ \A m \in 1..(n-1) : list[m] # x
    ELSE 0

ValueError == <<"ValueError">>

path_to_previous_and_next_urls_OffByOne(p, cfg) ==
    LET paths == [n \in 1..Len(cfg.pages) |-> cfg.pages[n][1]]
        idx == index(paths, p)
    IN IF idx = 0 THEN ValueError
       ELSE << IF idx = 1 THEN None ELSE path_to_url(paths[idx - 1], cfg),
               IF idx >= Len(paths) THEN None ELSE path_to_url(paths[idx], cfg) >>
path_to_previous_and_next_urls(p, cfg) ==
    LET paths == [n \in 1..Len(cfg.pages) |-> cfg.pages[n][1]]
        idx == index(paths, p)
    IN IF idx = 0 THEN ValueError
       ELSE << IF idx = 1 THEN None ELSE path_to_url(paths[idx - 1], cfg),
               IF idx >= Len(paths) THEN None ELSE path_to_url(paths[idx + 1], cfg) >>

(***************************************************************************)
(* Navigation Builder                                                      *)
(***************************************************************************)
\* NavItem.__init__: active starts False
NavItem(title, u, children) ==
    [title |-> title, url |-> u, children |-> children, active |-> FALSE]

\* the test of the elif in generate_nav: a new group is opened
NewGroup_Anywhere(r, title) == r = <<>> \/ \A t \in 1..Len(r) : r[t].title # title
NewGroup(r, title) == r = <<>> \/ r[Len(r)].title # title

\* "New top level nav item"
new_top_level(r, title, u) == Append(r, NavItem(title, u, <<>>))

\* "New second level nav item": a group without url holding the page
new_second_level_NoChildUrl(r, title, child_title, u) ==
    Append(r, NavItem(title, None, <<NavItem(child_title, None, <<>>)>>))
new_second_level(r, title, child_title, u) ==
    Append(r, NavItem(title, None, <<NavItem(child_title, u, <<>>)>>))

\* "Additional second level nav item": the page joins the last top-level item
additional_second_level_NewGroup(r, child_title, u) ==
    Append(r, NavItem(r[Len(r)].title, None, <<NavItem(child_title, u, <<>>)>>))
additional_second_level(r, child_title, u) ==
    [r EXCEPT ![Len(r)].children = Append(@, NavItem(child_title, u, <<>>))]

\* the body of the loop of generate_nav for one (path, title) of config['pages']
generate_nav_page(r, page, cfg) ==
    LET u == path_to_url(page[1], cfg)
        parts == partition(page[2], "/")
        title == strip(parts[1])
        child_title == strip(parts[3])
    IN IF child_title = <<>> THEN new_top_level(r, title, u)
       ELSE IF NewGroup(r, title) THEN new_second_level(r, title, child_title, u)
       ELSE additional_second_level(r, child_title, u)

(***************************************************************************)
(* Active-Path Marker                                                      *)
(***************************************************************************)
\* a reference to an item of the nav tree: <<t>> is the t-th top-level item,
\* <<t, c>> its c-th child; NoItem is the None that set_nav_active returns
NoItem == <<>>

ItemAt(n, pos) ==
    IF Len(pos) = 1 THEN n[pos[1]] ELSE n[pos[1]].children[pos[2]]

\* the inner loop's if/else on one child
set_child_active_NoReset(child, u) ==
    IF child.url = u THEN [child EXCEPT !.active = TRUE] ELSE child
set_child_active(child, u) ==
    IF child.url = u THEN [child EXCEPT !.active = TRUE]
    ELSE [child EXCEPT !.active = FALSE]

\* the outer loop's body on one top-level item: its own if/else, then the
\* inner loop, in which a matching child also sets the parent's flag
set_item_active_StickyParent(nav_item, u) ==
    [nav_item EXCEPT
        !.active = @ \/ nav_item.url = u
                     \/ \E c \in 1..Len(nav_item.children) : nav_item.children[c].url = u,
        !.children = [c \in 1..Len(nav_item.children) |->
                          set_child_active(nav_item.children[c], u)]]
set_item_active(nav_item, u) ==
    LET own == IF nav_item.url = u THEN TRUE ELSE FALSE
    IN [nav_item EXCEPT
          !.active = own \/ \E c \in 1..Len(nav_item.children) :
                                nav_item.children[c].url = u,
          !.children = [c \in 1..Len(nav_item.children) |->
                            set_child_active(nav_item.children[c], u)]]

\* p is reached before q by the loops: an item before its children, children
\* in order, then the next top-level item
ReachedBefore(p, q) ==
    \/ p[1] < q[1]
    \/ p[1] = q[1] /\ Len(p) < Len(q)
    \/ p[1] = q[1] /\ Len(p) = 2 /\ Len(q) = 2 /\ p[2] < q[2]

\* the items the loops assign to `active`
Matching_TopLevelOnly(n, u) ==
    {<<t>> : t \in {t \in 1..Len(n) : n[t].url = u}}
Matching(n, u) ==
    {<<t>> : t \in {t \in 1..Len(n) : n[t].url = u}}
    \cup UNION {{<<t, c>> : c \in {c \in 1..Len(n[t].children) : n[t].children[c].url = u}}
                : t \in 1..Len(n)}

\* the value of `active` at the return: the last item assigned to it
returned_active(n, u) ==
    IF Matching(n, u) = {} THEN NoItem
    ELSE CHOOSE p \in Matching(n, u) :
            \A q \in Matching(n, u) : q = p \/ ReachedBefore(q, p)

\* set_nav_active(path, config, nav): the tree after the call and the item returned
set_nav_active(p, cfg, n) ==
    LET u == path_to_url(p, cfg)
    IN [nav |-> [t \in 1..Len(n) |-> set_item_active(n[t], u)],
        active |-> returned_active(n, u)]

(***************************************************************************)
(* Inputs of the URL resolver                                              *)
(***************************************************************************)
MaxSegs == 2

Segments == {INDEX, <<"a">>, <<"d", "e", "x">>}
Separators == {"/", ":"}
Extensions == {<<>>, <<".", "m", "d">>}
BaseUrls == {<<>>, <<"/", "i", "n", "d", "e", "x">>}

RECURSIVE Stems(_)
Stems(n) ==
    IF n = 1 THEN Segments
    ELSE {s \o <<c>> \o t : s \in Stems(n - 1), c \in Separators, t \in Segments}

SourcePaths ==
    {s \o e : s \in UNION {Stems(n) : n \in 1..MaxSegs}, e \in Extensions}

IdleNav == /\ nav = <<>> /\ active_nav = NoItem /\ url = None
           /\ previous_url = None /\ next_url = None /\ k = 0
IdleToc == /\ toc_html = <<>> /\ lines = <<>> /\ li = 0
           /\ parents = <<>> /\ items = <<>> /\ ret = <<>>

InitUrl ==
    /\ config \in [pages : {<<>>}, local_files : BOOLEAN, base_url : BaseUrls]
    /\ path \in SourcePaths
    /\ pc = "path_to_url"
    /\ result = None
    /\ IdleNav
    /\ IdleToc

\* one call path_to_url(path, config)
PathToUrl ==
    /\ pc = "path_to_url"
    /\ result' = path_to_url(path, config)
    /\ pc' = "returned"
    /\ UNCHANGED <<config, path, navVars, tocVars>>

NextUrl == PathToUrl

SpecUrl == InitUrl /\ [][NextUrl]_vars

(***************************************************************************)
(* Inputs of the build: config['pages'] is an ordered list of (path, title)*)
(***************************************************************************)
MaxPages == 4

PagePool ==
    { << <<"a", ".", "m", "d">>, <<"I", "n", "t", "r", "o">> >>,
      << <<"b", ".", "m", "d">>, <<"G", "u", "i", "d", "e", "/", "S", "e", "t", "u", "p">> >>,
      << <<"c", ".", "m", "d">>, <<"G", "u", "i", "d", "e", "/", "R", "u", "n">> >>,
      << <<"d", ".", "m", "d">>, <<"G", "u", "i", "d", "e", "/", "S", "e", "t", "u", "p">> >>,
      << <<"i", "n", "d", "e", "x", ".", "m", "d">>, <<"G", "u", "i", "d", "e">> >>,
      << <<"g", "/", "i", "n", "d", "e", "x", ".", "m", "d">>,
         <<" ", "A", "p", "i", " ", "/", " ", "R", "e", "f", " ">> >> }

\* a path that no page of the pool declares
UndeclaredPath == <<"z", ".", "m", "d">>

CallPaths == {pg[1] : pg \in PagePool} \cup {UndeclaredPath}

PageLists == UNION {[1..n -> PagePool] : n \in 0..MaxPages}

InitBuild ==
    /\ config \in [pages : PageLists, local_files : BOOLEAN, base_url : {<<>>}]
    /\ pc = "generate_nav"
    /\ path = None
    /\ result = None
    /\ IdleNav
    /\ IdleToc

\* generate_nav: one iteration of the loop over config['pages']
GenerateNavLoop ==
    /\ pc = "generate_nav"
    /\ k < Len(config.pages)
    /\ nav' = generate_nav_page(nav, config.pages[k + 1], config)
    /\ k' = k + 1
    /\ UNCHANGED <<config, pc, path, result, active_nav, url, previous_url, next_url,
                   tocVars>>

\* generate_nav: the loop is over, ret is returned (build_pages: nav = ...)
GenerateNavReturn ==
    /\ pc = "generate_nav"
    /\ k = Len(config.pages)
    /\ pc' = "nav"
    /\ k' = 0
    /\ UNCHANGED <<config, path, result, nav, active_nav, url, previous_url, next_url,
                   tocVars>>

\* build_pages: one iteration of the loop over config['pages'], up to the read
\* of active_nav.title for the template context; the AttributeError of that
\* read on None and the ValueError of paths.index end the build
BuildPage ==
    /\ pc = "nav"
    /\ k < Len(config.pages)
    /\ LET page == config.pages[k + 1]
           marked == set_nav_active(page[1], config, nav)
           prev_next == path_to_previous_and_next_urls(page[1], config)
       IN /\ path' = page[1]
          /\ nav' = marked.nav
          /\ active_nav' = marked.active
          /\ url' = path_to_url(page[1], config)
          /\ IF prev_next = ValueError
             THEN /\ pc' = "raised"
                  /\ UNCHANGED <<previous_url, next_url>>
             ELSE /\ previous_url' = prev_next[1]
                  /\ next_url' = prev_next[2]
                  /\ pc' = IF marked.active = NoItem THEN "raised" ELSE "nav"
    /\ k' = k + 1
    /\ UNCHANGED <<config, result, tocVars>>

\* build_pages: the loop is over
BuildPagesReturn ==
    /\ pc = "nav"
    /\ k = Len(config.pages)
    /\ pc' = "done"
    /\ UNCHANGED <<config, path, result, navVars, tocVars>>

NextBuild == GenerateNavLoop \/ GenerateNavReturn \/ BuildPage \/ BuildPagesReturn

Spec == InitBuild /\ [][NextBuild]_vars

\* one call set_nav_active(p, config, nav) on the shared tree, for any path
SetNavActive ==
    /\ pc = "nav"
    /\ \E p \in CallPaths :
          LET marked == set_nav_active(p, config, nav)
          IN /\ path' = p
             /\ nav' = marked.nav
             /\ active_nav' = marked.active
    /\ UNCHANGED <<config, pc, result, url, previous_url, next_url, k, tocVars>>

NextNav == GenerateNavLoop \/ GenerateNavReturn \/ SetNavActive

SpecNav == InitBuild /\ [][NextNav]_vars

(***************************************************************************)
(* Properties of the navigation tree and of the page loop                  *)
(***************************************************************************)
\* every item of a nav tree, by reference
Positions(n) ==
    {<<t>> : t \in 1..Len(n)}
    \cup UNION {{<<t, c>> : c \in 1..Len(n[t].children)} : t \in 1..Len(n)}

ActiveItems(n) == {pos \in Positions(n) : ItemAt(n, pos).active}

DistinctUrls(cfg) ==
    \A m, n \in 1..Len(cfg.pages) :
        m # n => path_to_url(cfg.pages[m][1], cfg) # path_to_url(cfg.pages[n][1], cfg)

DistinctPaths(cfg) ==
    \A m, n \in 1..Len(cfg.pages) : m # n => cfg.pages[m][1] # cfg.pages[n][1]

\* C1 as stated: after a call of set_nav_active, at most one NavItem of the
\* whole tree, top-level items and children counted together, is active.
C1_AtMostOneActiveItem ==
    (pc = "nav" /\ path # None) => Cardinality(ActiveItems(nav)) <= 1

\* C1 amended: after a call of set_nav_active an active item either has the
\* url of the path or is the top-level parent of a child that has it; when
\* the pages resolve to pairwise distinct URLs at most one item with that url
\* is active, and the only other active item is the parent of that item when
\* it is a child (zero, one, or child plus parent).
C1_OneActivePath ==
    (pc = "nav" /\ path # None) =>
        LET u == path_to_url(path, config)
            hits == {pos \in ActiveItems(nav) : ItemAt(nav, pos).url = u}
        IN /\ \A pos \in ActiveItems(nav) :
                \/ pos \in hits
                \/ Len(pos) = 1 /\ \E c \in 1..Len(nav[pos[1]].children) : <<pos[1], c>> \in hits
           /\ DistinctUrls(config) =>
                /\ Cardinality(hits) <= 1
                /\ Cardinality(ActiveItems(nav)) <= 2
                /\ \A pos \in hits : ActiveItems(nav) \subseteq {pos, <<pos[1]>>}

\* a child and its parent are both active, all page URLs being distinct
C1_Witness ==
    /\ pc = "nav" /\ path # None /\ DistinctUrls(config)
    /\ Len(active_nav) = 2
    /\ ActiveItems(nav) = {active_nav, <<active_nav[1]>>}

\* C2: after the set_nav_active calls of the pages rendered so far, the flags
\* are those of the last path alone: a child is active iff its url is the
\* last path's URL, a top-level item iff its url is that URL or one of its
\* children is active; nothing marked for an earlier page stays active.
C2_ActiveFollowsLastPath ==
    (pc \in {"nav", "done"} /\ path # None) =>
        LET u == path_to_url(path, config)
        IN \A t \in 1..Len(nav) :
              /\ \A c \in 1..Len(nav[t].children) :
                    nav[t].children[c].active <=> (nav[t].children[c].url = u)
              /\ nav[t].active <=>
                    \/ nav[t].url = u
                    \/ \E c \in 1..Len(nav[t].children) : nav[t].children[c].active

\* a second or later page has been rendered, and the child that the page
\* before it made active is inactive again
C2_Witness ==
    /\ pc = "nav" /\ k >= 2
    /\ \E pos \in Positions(nav) :
          /\ Len(pos) = 2
          /\ ItemAt(nav, pos).url = path_to_url(config.pages[k - 1][1], config)
          /\ ~ItemAt(nav, pos).active
    /\ active_nav # NoItem /\ ItemAt(nav, active_nav).active

C3Pages ==
    << << <<"a", ".", "m", "d">>, <<"I", "n", "t", "r", "o">> >>,
       << <<"b", ".", "m", "d">>, <<"G", "u", "i", "d", "e", "/", "S", "e", "t", "u", "p">> >>,
       << <<"c", ".", "m", "d">>, <<"G", "u", "i", "d", "e", "/", "R", "u", "n">> >>,
       << <<"d", ".", "m", "d">>, <<"G", "u", "i", "d", "e", "/", "S", "e", "t", "u", "p">> >> >>

GUIDE == <<"G", "u", "i", "d", "e">>

\* the top-level entries holding a child with the URL of page n of the config
GroupsOf(n) ==
    {t \in 1..Len(nav) : \E c \in 1..Len(nav[t].children) :
        nav[t].children[c].url = path_to_url(config.pages[n][1], config)}

\* C3 as stated: on the four pages Intro, Guide/Setup, Guide/Run, Guide/Setup
\* generate_nav returns 3 top-level entries, two of them groups titled
\* "Guide", the second and the fourth page in different groups.
C3_TwoGuideGroups ==
    (pc = "nav" /\ config.pages = C3Pages) =>
        /\ Len(nav) = 3
        /\ Cardinality({t \in 1..Len(nav) : nav[t].title = GUIDE /\ nav[t].url = None}) = 2
        /\ GroupsOf(2) \cap GroupsOf(4) = {}

\* C3 amended: on those four pages generate_nav returns exactly 2 top-level
\* entries, the page "Intro" and one group titled "Guide" whose children are
\* the second, third and fourth page in order: the three Guide pages are
\* contiguous, so the second and the fourth page share a group.
C3_OneGuideGroup ==
    (pc = "nav" /\ config.pages = C3Pages) =>
        /\ Len(nav) = 2
        /\ nav[1].title = <<"I", "n", "t", "r", "o">>
        /\ nav[1].url = path_to_url(C3Pages[1][1], config)
        /\ nav[1].children = <<>>
        /\ nav[2].title = GUIDE /\ nav[2].url = None
        /\ [c \in 1..Len(nav[2].children) |-> nav[2].children[c].url]
              = [n \in 1..3 |-> path_to_url(C3Pages[n + 1][1], config)]
        /\ [c \in 1..Len(nav[2].children) |-> nav[2].children[c].title]
              = << <<"S", "e", "t", "u", "p">>, <<"R", "u", "n">>, <<"S", "e", "t", "u", "p">> >>
        /\ GroupsOf(2) = {2} /\ GroupsOf(4) = {2}

C3_Witness == pc = "nav" /\ config.pages = C3Pages /\ Len(nav) = 2

\* the urls of the url-bearing items of a nav tree, in tree order
RECURSIVE UrlsOf(_)
UrlsOf(n) ==
    IF n = <<>> THEN <<>>
    ELSE LET last == n[Len(n)]
         IN UrlsOf(SubSeq(n, 1, Len(n) - 1))
            \o (IF last.url = None THEN <<>> ELSE <<last.url>>)
            \o [c \in 1..Len(last.children) |-> last.children[c].url]

\* the number of pages generate_nav has placed in nav
Placed == IF pc = "generate_nav" THEN k ELSE Len(config.pages)

C4_Shape ==
    /\ \A t \in 1..Len(nav) : \A c \in 1..Len(nav[t].children) :
          /\ nav[t].children[c].children = <<>>
          /\ nav[t].children[c].url # None
    /\ UrlsOf(nav) = [n \in 1..Placed |-> path_to_url(config.pages[n][1], config)]

C4_Step ==
    (pc = "generate_nav" /\ k' = k + 1) =>
        LET page == config.pages[k + 1]
            u == path_to_url(page[1], config)
            parent == strip(partition(page[2], "/")[1])
            child == strip(partition(page[2], "/")[3])
            joins == nav # <<>> /\ nav[Len(nav)].title = parent
        IN IF child = <<>>
           THEN /\ Len(nav') = Len(nav) + 1
                /\ SubSeq(nav', 1, Len(nav)) = nav
                /\ nav'[Len(nav')].url = u
                /\ nav'[Len(nav')].children = <<>>
           ELSE IF joins
           THEN /\ Len(nav') = Len(nav)
                /\ SubSeq(nav', 1, Len(nav) - 1) = SubSeq(nav, 1, Len(nav) - 1)
                /\ nav'[Len(nav)].url = nav[Len(nav)].url
                /\ Len(nav'[Len(nav)].children) = Len(nav[Len(nav)].children) + 1
                /\ nav'[Len(nav)].children[Len(nav'[Len(nav)].children)].url = u
           ELSE /\ Len(nav') = Len(nav) + 1
                /\ SubSeq(nav', 1, Len(nav)) = nav
                /\ nav'[Len(nav')].title = parent
                /\ nav'[Len(nav')].url = None
                /\ Len(nav'[Len(nav')].children) = 1
                /\ nav'[Len(nav')].children[1].url = u

\* C4: generate_nav groups contiguously only: the tree has depth at most 2
\* and holds one url-bearing item per page, in declared order; a page with a
\* two-part title joins the last top-level entry iff that entry's title is
\* its parent title, and otherwise a new top-level group without url is
\* appended.
C4_ContiguousGrouping == []C4_Shape /\ [][C4_Step]_vars

\* two groups of the same title, kept apart by another top-level entry
C4_Witness ==
    /\ pc = "nav"
    /\ \E s, t \in 1..Len(nav) :
          /\ s + 1 < t
          /\ nav[s].title = nav[t].title
          /\ nav[s].url = None /\ nav[t].url = None
          /\ nav[s + 1].title # nav[s].title

\* C5 as stated: for the page at position k of the list, prev is absent iff k
\* is the first position and next is absent iff k is the last, otherwise they
\* are the URLs of the entries at k-1 and k+1.
C5_NeighboursOfPosition ==
    (pc \in {"nav", "done"} /\ k >= 1) =>
        /\ previous_url = None <=> k = 1
        /\ next_url = None <=> k = Len(config.pages)
        /\ k > 1 => previous_url = path_to_url(config.pages[k - 1][1], config)
        /\ k < Len(config.pages) => next_url = path_to_url(config.pages[k + 1][1], config)

\* C5 amended: with idx the first position at which the page's path occurs
\* in the list, prev is absent iff idx is the first position and next is
\* absent iff idx is the last, otherwise they are the URLs of the entries at
\* idx-1 and idx+1; when the declared paths are pairwise distinct idx is the
\* page's own position, so next leads through the pages in declared order
\* and the prev of the following page is the URL of the page.
C5_NeighboursOfFirstOccurrence ==
    (pc \in {"nav", "done"} /\ k >= 1) =>
        \E idx \in 1..Len(config.pages) :
            /\ config.pages[idx][1] = config.pages[k][1]
            /\ \A j \in 1..(idx - 1) : config.pages[j][1] # config.pages[k][1]
            /\ previous_url = None <=> idx = 1
            /\ next_url = None <=> idx = Len(config.pages)
            /\ idx > 1 => previous_url = path_to_url(config.pages[idx - 1][1], config)
            /\ idx < Len(config.pages) =>
                  next_url = path_to_url(config.pages[idx + 1][1], config)
            /\ DistinctPaths(config) => idx = k

\* an interior page of a list of distinct paths has been rendered
C5_Witness ==
    /\ pc = "nav" /\ DistinctPaths(config)
    /\ 1 < k /\ k < Len(config.pages)
    /\ previous_url = path_to_url(config.pages[k - 1][1], config)
    /\ next_url = path_to_url(config.pages[k + 1][1], config)

\* C9: for every declared page, set_nav_active on the shared tree returns an
\* item, never None, that has the page's URL and is active, so the read of
\* active_nav.title in build_pages never fails, whatever was rendered before.
C9_ActiveNavFound ==
    (pc \in {"nav", "done", "raised"} /\ k >= 1) =>
        /\ pc # "raised"
        /\ active_nav # NoItem
        /\ ItemAt(nav, active_nav).url = path_to_url(config.pages[k][1], config)
        /\ ItemAt(nav, active_nav).url = url
        /\ ItemAt(nav, active_nav).active

\* a child is returned for a page rendered after other pages
C9_Witness ==
    /\ pc = "nav" /\ k >= 2
    /\ Len(active_nav) = 2
    /\ ItemAt(nav, active_nav).url = url

\* C10 as stated: in the result of generate_nav a top-level item has children
\* iff its url is absent, and every child is a leaf.
C10_ChildrenIffNoUrl ==
    pc = "nav" =>
        \A t \in 1..Len(nav) :
            /\ nav[t].children # <<>> <=> nav[t].url = None
            /\ \A c \in 1..Len(nav[t].children) : nav[t].children[c].children = <<>>

\* C10 amended: in the result of generate_nav a top-level item whose url is
\* absent has a non-empty children list, and every child is a leaf that
\* carries a page url; a top-level item that carries a page url may have
\* children as well (the pages that follow it under its title).
C10_NoUrlImpliesChildren ==
    pc = "nav" =>
        \A t \in 1..Len(nav) :
            /\ nav[t].url = None => nav[t].children # <<>>
            /\ \A c \in 1..Len(nav[t].children) :
                  /\ nav[t].children[c].children = <<>>
                  /\ nav[t].children[c].url # None

\* a top-level page with a url of its own has been given a child
C10_Witness ==
    /\ pc = "nav"
    /\ \E t \in 1..Len(nav) : nav[t].url # None /\ nav[t].children # <<>>

(***************************************************************************)
(* TOC Extractor                                                           *)
(***************************************************************************)
\* str.splitlines(), the line boundary being "\n": no empty last line after
\* a final line break
RECURSIVE splitlines(_)
splitlines(s) ==
    IF s = <<>> THEN <<>>
    ELSE LET n == FindFrom(s, "\n", 1)
         IN IF n = 0 THEN <<s>>
            ELSE <<SubSeq(s, 1, n - 1)>> \o splitlines(SubSeq(s, n + 1, Len(s)))

\* the slice [2:-2]
slice_2_m2(l) == SubSeq(l, 3, Len(l) - 2)

A_HREF == <<"<", "a", " ", "h", "r", "e", "f", "=", "\"">>
A_END == <<"<", "/", "a", ">">>
UL == <<"<", "u", "l", ">">>
UL_END == <<"<", "/", "u", "l", ">">>

NoMatch == <<>>

\* TOC_LINK_REGEX matched at position n of line s:
\*   <a href=["]([^"]*)["]>([^<]*)</a>
\* the href runs to the next double quote, which ">" must follow; the title
\* runs to the next "<", which must start "</a>".  <<href, title>> or NoMatch.
match_at(s, n) ==
    IF ~StartsWith(SubSeq(s, n, Len(s)), A_HREF) THEN NoMatch
    ELSE LET h == n + Len(A_HREF)
             q == FindFrom(s, "\"", h)
         IN IF q = 0 \/ q + 1 > Len(s) \/ s[q + 1] # ">" THEN NoMatch
            ELSE LET lt == FindFrom(s, "<", q + 2)
                 IN IF lt = 0 \/ SubSeq(s, lt, lt + 3) # A_END THEN NoMatch
                    ELSE <<SubSeq(s, h, q - 1), SubSeq(s, q + 2, lt - 1)>>

\* TOC_LINK_REGEX.search(line).groups(): the leftmost match
search(s) ==
    LET at == {n \in 1..Len(s) : match_at(s, n) # NoMatch}
    IN IF at = {} THEN NoMatch
       ELSE match_at(s, CHOOSE n \in at : \A m \in at : n <= m)

\* "Add the item to its parent if required.  If it is a topmost item then
\* instead append it to our return value": the new item has reference id;
\* the heap of NavItems and ret after the if/else
attach_Outermost(its, r, ps, id) ==
    IF ps # <<>>
    THEN [items |-> [its EXCEPT ![ps[1]].children = Append(@, id)], ret |-> r]
    ELSE [items |-> its, ret |-> Append(r, id)]
attach(its, r, ps, id) ==
    IF ps # <<>>
    THEN [items |-> [its EXCEPT ![ps[Len(ps)]].children = Append(@, id)], ret |-> r]
    ELSE [items |-> its, ret |-> Append(r, id)]

\* "For the table of contents, always mark the first element as active"
mark_first_Never(its, r) == its
mark_first(its, r) ==
    IF r # <<>> THEN [its EXCEPT ![r[1]].active = TRUE] ELSE its

(***************************************************************************)
(* Inputs of the TOC extractor: the converter's fragment, one element per  *)
(* line, between the wrapper lines <div class="toc"> <ul> ... </ul> </div> *)
(***************************************************************************)
MaxTocLines == 5

LI == <<"<", "l", "i", ">">>
LI_END == <<"<", "/", "l", "i", ">">>
DIV == <<"<", "d", "i", "v", " ", "c", "l", "a", "s", "s", "=", "\"", "t", "o", "c", "\"", ">">>
DIV_END == <<"<", "/", "d", "i", "v", ">">>

Headings == <<"A", "B", "C", "D", "E", "F", "G", "H">>

Anchor(href, title) == A_HREF \o href \o <<"\"", ">">> \o title \o A_END

\* the line of a heading without sub-headings
ItemLine(x) == LI \o Anchor(<<"#", x>>, <<x>>) \o LI_END
\* the line of a heading whose nested list opens
OpenLine(x) == LI \o Anchor(<<"#", x>>, <<x>>) \o UL
\* a heading whose anchor text holds markup: not what the converter's contract allows
MarkupLine(x) == LI \o Anchor(<<"#", x>>, <<"<", "b", ">", x, "<", "/", "b", ">">>) \o LI_END

Kinds == {"item", "open", "</ul>", "</li>", "<ul>", "markup"}

LineOf(kind, x) ==
    CASE kind = "item" -> ItemLine(x)
      [] kind = "open" -> OpenLine(x)
      [] kind = "</ul>" -> UL_END
      [] kind = "</li>" -> LI_END
      [] kind = "<ul>" -> UL
      [] kind = "markup" -> MarkupLine(x)

RECURSIVE JoinLines(_)
JoinLines(ls) ==
    IF ls = <<>> THEN <<>>
    ELSE IF Len(ls) = 1 THEN ls[1]
    ELSE ls[1] \o <<"\n">> \o JoinLines(Tail(ls))

\* the fragment of the converter for a body of line kinds
Fragment(body) ==
    JoinLines(<<DIV, UL>> \o [j \in 1..Len(body) |-> LineOf(body[j], Headings[j])]
              \o <<UL_END, DIV_END>>)

C6Body ==
    << UL,
       <<"<", "l", "i", ">", "<", "a", " ", "h", "r", "e", "f", "=", "\"", "#", "a", "\"", ">",
         "A", "<", "/", "a", ">", "<", "u", "l", ">">>,
       <<"<", "l", "i", ">", "<", "a", " ", "h", "r", "e", "f", "=", "\"", "#", "a", "-", "1",
         "\"", ">", "A", "1", "<", "/", "a", ">", "<", "/", "l", "i", ">">>,
       UL_END,
       LI_END,
       UL_END >>

\* the two-level fragment between 2 leading and 2 trailing wrapper lines
C6Html == JoinLines(<<DIV, DIV>> \o C6Body \o <<DIV_END, DIV_END>>)

\* the two-level fragment between 1 leading and 1 trailing wrapper line: its
\* own <ul> and last </ul> are the second and the second-last line
C6HtmlOneWrapper == JoinLines(<<DIV>> \o C6Body \o <<DIV_END>>)

TocInputs ==
    {Fragment(body) : body \in UNION {[1..n -> Kinds] : n \in 0..MaxTocLines}}
    \cup {C6Html, C6HtmlOneWrapper}

InitToc ==
    /\ config = [pages |-> <<>>, local_files |-> FALSE, base_url |-> <<>>]
    /\ path = None
    /\ result = None
    /\ IdleNav
    /\ toc_html \in TocInputs
    /\ pc = "generate_toc"
    /\ lines = <<>> /\ li = 0 /\ parents = <<>> /\ items = <<>> /\ ret = <<>>

\* generate_toc: lines = toc_html.splitlines()[2:-2]; parents = []; ret = []
TocSplit ==
    /\ pc = "generate_toc"
    /\ lines' = slice_2_m2(splitlines(toc_html))
    /\ li' = 0 /\ parents' = <<>> /\ items' = <<>> /\ ret' = <<>>
    /\ pc' = "toc_loop"
    /\ UNCHANGED <<config, path, result, navVars, toc_html>>

\* generate_toc: one iteration of the loop over lines; parents.pop() on the
\* empty list raises IndexError
TocLine ==
    /\ pc = "toc_loop"
    /\ li < Len(lines)
    /\ li' = li + 1
    /\ LET line == lines[li + 1]
           m == search(line)
           id == Len(items) + 1
           added == attach(Append(items, NavItem(m[2], m[1], <<>>)), ret, parents, id)
       IN IF m # NoMatch
          THEN /\ items' = added.items
               /\ ret' = added.ret
               /\ parents' = IF EndsWith(line, UL) THEN Append(parents, id) ELSE parents
               /\ pc' = pc
          ELSE IF StartsWith(line, UL_END)
          THEN IF parents = <<>>
               THEN /\ pc' = "raised"
                    /\ UNCHANGED <<parents, items, ret>>
               ELSE /\ parents' = SubSeq(parents, 1, Len(parents) - 1)
                    /\ pc' = pc
                    /\ UNCHANGED <<items, ret>>
          ELSE /\ pc' = pc
               /\ UNCHANGED <<parents, items, ret>>
    /\ UNCHANGED <<config, path, result, navVars, toc_html, lines>>

\* generate_toc: after the loop, the first element is marked and ret returned
TocReturn ==
    /\ pc = "toc_loop"
    /\ li = Len(lines)
    /\ items' = mark_first(items, ret)
    /\ pc' = "toc_done"
    /\ UNCHANGED <<config, path, result, navVars, toc_html, lines, li, parents, ret>>

NextToc == TocSplit \/ TocLine \/ TocReturn

SpecToc == InitToc /\ [][NextToc]_vars

(***************************************************************************)
(* Properties of the TOC extractor                                         *)
(***************************************************************************)
Range(f) == {f[n] : n \in 1..Len(f)}

\* the tree C6 describes: one top-level item "A", active, with one child "A1"
C6Tree ==
    /\ pc = "toc_done"
    /\ Len(ret) = 1
    /\ items[ret[1]].title = <<"A">>
    /\ items[ret[1]].active
    /\ Len(items[ret[1]].children) = 1
    /\ items[items[ret[1]].children[1]].title = <<"A", "1">>
    /\ items[items[ret[1]].children[1]].children = <<>>

\* C6 as stated: on the two-level fragment between 2 leading and 2 trailing
\* wrapper lines generate_toc returns, without raising, one top-level item "A"
\* with active = true and one child "A1".
C6_TwoWrapperLines ==
    (toc_html = C6Html /\ pc \in {"toc_done", "raised"}) => C6Tree

\* C6 amended: on the two-level fragment between 1 leading and 1 trailing
\* wrapper line, so that the fragment's own <ul> and its last </ul> are among
\* the two lines discarded at either end, generate_toc returns, without
\* raising, one top-level item "A" with active = true and one child "A1".
C6_OneWrapperLine ==
    (toc_html = C6HtmlOneWrapper /\ pc \in {"toc_done", "raised"}) => C6Tree

C6_Witness == toc_html = C6HtmlOneWrapper /\ pc = "toc_done" /\ Len(items) = 2

IsOpenLine(l) == \E j \in 1..Len(Headings) : l = OpenLine(Headings[j])
IsItemLine(l) == \E j \in 1..Len(Headings) : l = ItemLine(Headings[j])
IsAnchorLine(l) == IsOpenLine(l) \/ IsItemLine(l)

\* nested lists opened minus nested lists closed by lines a..b
Depth(ls, a, b) ==
    Cardinality({j \in a..b : IsOpenLine(ls[j])})
    - Cardinality({j \in a..b : ls[j] = UL_END})

\* balanced nested lists: item lines, each optionally opening a nested list,
\* and list-close lines that match the openings
WellFormed(ls) ==
    /\ \A j \in 1..Len(ls) : IsAnchorLine(ls[j]) \/ ls[j] = UL_END \/ ls[j] = LI_END
    /\ \A n \in 1..Len(ls) : Depth(ls, 1, n) >= 0
    /\ Depth(ls, 1, Len(ls)) = 0

\* the lines among the first n whose nested list is still open after line n
StillOpen(ls, n) ==
    {j \in 1..n : IsOpenLine(ls[j]) /\ \A m \in (j + 1)..n : Depth(ls, j + 1, m) >= 0}

\* the NavItem made for anchor line j: items are made in line order
IdOf(ls, j) == Cardinality({m \in 1..j : IsAnchorLine(ls[m])})

Innermost(open) == CHOOSE j \in open : \A m \in open : m <= j

\* C7: on a well-formed fragment generate_toc never pops the empty stack and
\* never raises; after every line the stack holds exactly the items whose
\* nested list is still open, innermost last; every anchor is a child of the
\* item that was innermost open when its line was read, or a top-level entry
\* when none was.
C7_WellFormedNeverRaises ==
    (pc \in {"toc_loop", "toc_done", "raised"} /\ WellFormed(lines)) =>
        /\ pc # "raised"
        /\ Len(items) = IdOf(lines, li)
        /\ Len(parents) = Cardinality(StillOpen(lines, li))
        /\ Range(parents) = {IdOf(lines, j) : j \in StillOpen(lines, li)}
        /\ \A n \in 1..(Len(parents) - 1) : parents[n] < parents[n + 1]
        /\ \A j \in 1..li : IsAnchorLine(lines[j]) =>
              LET id == IdOf(lines, j)
                  open == StillOpen(lines, j - 1)
                  holders == {n \in 1..Len(items) : id \in Range(items[n].children)}
              IN /\ items[id].title = <<Headings[j]>>
                 /\ IF open = {}
                    THEN id \in Range(ret) /\ holders = {}
                    ELSE id \notin Range(ret) /\ holders = {IdOf(lines, Innermost(open))}

\* a well-formed fragment with an item inside a list nested in a nested list
C7_Witness ==
    /\ pc = "toc_done" /\ WellFormed(lines)
    /\ \E a, b, c \in 1..Len(items) :
          /\ a \in Range(ret)
          /\ b \in Range(items[a].children)
          /\ c \in Range(items[b].children)

(***************************************************************************)
(* Properties of the URL resolver                                          *)
(***************************************************************************)
\* C8: in clean-URL mode the URL ends with "/"; when the last segment of the
\* extension-stripped path is "index" it is base_url + "/" + the path without
\* that segment, otherwise base_url + "/" + the extension-stripped path + "/".
C8_CleanUrl ==
    (pc = "returned" /\ ~config.local_files) =>
        LET stem == splitext0(path)
        IN /\ EndsWith(result, <<"/">>)
           /\ IF basename(stem) = INDEX
              THEN result = config.base_url \o <<"/">> \o SubSeq(stem, 1, Len(stem) - Len(INDEX))
              ELSE result = config.base_url \o <<"/">> \o stem \o <<"/">>

====
